---- MODULE Spec2Model ----
(***************************************************************************)
(* Model of homeassistant/components/shopping_list.py: the in-memory       *)
(* shopping list store (ShoppingData), the two intent handlers and the two *)
(* HTTP views that call into it.                                           *)
(*                                                                         *)
(* Python values are modelled with their type: a value is a record         *)
(* [type, b, s, n] (bool, str, int or None); a dict is a function from its *)
(* keys to values; a list is a sequence.                                   *)
(***************************************************************************)
EXTENDS Integers, Sequences, FiniteSets, Bags, TLC

(***************************************************************************)
(* Bounds of the model.                                                    *)
(***************************************************************************)
\* number of distinct values the uuid generator can deliver, and so the
\* number of direct add calls
MaxIds == 3
\* number of add-item intents that are handled
MaxIntents == 2
\* number of HTTP update requests that can be in flight at once
MaxReqs == 1
\* number of fired events the bus holds for its listeners; more are dropped
MaxBus == 1
\* length of the longest list the top-items query is run on
MaxList == 6

(***************************************************************************)
(* Program constants.                                                      *)
(***************************************************************************)
\* uuid.UUID.hex is '%032x' % int
HexWidth == 32
HTTP_OK == 200
HTTP_NOT_FOUND == 404
HTTP_BAD_REQUEST == 400
\* the slice items[-5:] and min(len(items), 5)
TopN == 5
EVENT == "shopping_list_updated"

(***************************************************************************)
(* Python values.                                                          *)
(***************************************************************************)
None == [type |-> "NoneType", b |-> FALSE, s |-> "", n |-> 0]
PyBool(x) == [type |-> "bool", b |-> x, s |-> "", n |-> 0]
PyStr(x) == [type |-> "str", b |-> FALSE, s |-> x, n |-> 0]
PyInt(x) == [type |-> "int", b |-> FALSE, s |-> "", n |-> x]
EmptyDict == [k \in {} |-> None]

Range(f) == {f[i] : i \in DOMAIN f}

(***************************************************************************)
(* uuid.uuid4().hex                                                        *)
(***************************************************************************)
UuidInts == 1..MaxIds

HexDigit(d) ==
    CASE d = 0 -> "0" [] d = 1 -> "1" [] d = 2 -> "2" [] d = 3 -> "3"
      [] d = 4 -> "4" [] d = 5 -> "5" [] d = 6 -> "6" [] d = 7 -> "7"
      [] d = 8 -> "8" [] d = 9 -> "9" [] d = 10 -> "a" [] d = 11 -> "b"
      [] d = 12 -> "c" [] d = 13 -> "d" [] d = 14 -> "e" [] d = 15 -> "f"

RECURSIVE HexDigits(_, _)
HexDigits(n, w) ==
    IF w = 0 THEN "" ELSE HexDigits(n \div 16, w - 1) \o HexDigit(n % 16)

\* UUID.hex: the 128-bit value as HexWidth zero-padded hexadecimal digits
hex(u) == HexDigits(u, HexWidth)

\* a generator that may deliver a value again
uuid4_repeating(iss) == UuidInts

\* uuid.uuid4(): a random 128-bit value. The generator is taken to keep its
\* contract that a value it delivered once is not delivered again (iss is the
\* sequence of values delivered so far; the code itself never compares a new
\* id with the ids in use). The program compares ids for equality only, so
\* which of the values not yet delivered comes next makes no difference to
\* it, and the model takes the least one.
uuid4(iss) ==
    LET free == UuidInts \ Range(iss)
    IN  {u \in free : \A v \in free : u <= v}

(***************************************************************************)
(* Inputs.                                                                 *)
(***************************************************************************)
\* names given to add (the store checks nothing about them)
Names == {"", "milk"}

\* item ids a caller can name: every id the generator can deliver and one
\* it never delivers
ItemIds == {hex(u) : u \in 0..MaxIds}

\* values of the 'item' slot of the add-item intent
Slots == {PyStr(n) : n \in Names} \cup {None}

\* dicts given to update as info
Patches ==
    { EmptyDict,
      "complete" :> PyBool(TRUE),
      "complete" :> PyBool(FALSE),
      "name" :> PyStr("milk"),
      ("name" :> PyStr("milk")) @@ ("complete" :> PyBool(TRUE)),
      "complete" :> PyInt(1),
      "id" :> PyStr(hex(0)),
      ("complete" :> PyBool(TRUE)) @@ ("unknown_field" :> PyInt(1)),
      ("name" :> PyStr("milk")) @@ ("complete" :> PyStr("yes")) }

\* JSON objects sent as the body of an HTTP update request
Bodies ==
    { EmptyDict,
      "complete" :> PyBool(TRUE),
      "name" :> PyStr("milk"),
      ("name" :> PyStr("milk")) @@ ("complete" :> PyBool(TRUE)),
      "complete" :> PyInt(1),
      ("complete" :> PyBool(TRUE)) @@ ("unknown_field" :> PyInt(1)) }

(***************************************************************************)
(* ITEM_UPDATE_SCHEMA = vol.Schema({'complete': bool, 'name': str})        *)
(* Keys are optional, extra keys are rejected, a value must be an instance *)
(* of the type; the validated dict carries the same keys and values.       *)
(***************************************************************************)
\* a schema with an optional 'id' key
SchemaTypes_with_id == [complete |-> "bool", name |-> "str", id |-> "str"]

SchemaTypes == [complete |-> "bool", name |-> "str"]

\* the schema with extra=vol.ALLOW_EXTRA
ITEM_UPDATE_SCHEMA_allow_extra(info) ==
    IF \A k \in DOMAIN info :
           k \in DOMAIN SchemaTypes => info[k].type = SchemaTypes[k]
    THEN [ok |-> TRUE, value |-> info]
    ELSE [ok |-> FALSE, value |-> EmptyDict]

\* a schema that wants at least one of its keys
ITEM_UPDATE_SCHEMA_nonempty(info) ==
    IF /\ DOMAIN info # {}
       /\ \A k \in DOMAIN info :
              k \in DOMAIN SchemaTypes /\ info[k].type = SchemaTypes[k]
    THEN [ok |-> TRUE, value |-> info]
    ELSE [ok |-> FALSE, value |-> EmptyDict]

ITEM_UPDATE_SCHEMA(info) ==
    IF \A k \in DOMAIN info :
           k \in DOMAIN SchemaTypes /\ info[k].type = SchemaTypes[k]
    THEN [ok |-> TRUE, value |-> info]
    ELSE [ok |-> FALSE, value |-> EmptyDict]

\* an update that puts a missing 'complete' back to False
dict_update_defaulting(d, other) ==
    [k \in DOMAIN d \cup DOMAIN other |->
        IF k \in DOMAIN other THEN other[k]
        ELSE IF k = "complete" THEN PyBool(FALSE) ELSE d[k]]

\* dict.update(other)
dict_update(d, other) ==
    [k \in DOMAIN d \cup DOMAIN other |->
        IF k \in DOMAIN other THEN other[k] ELSE d[k]]

(***************************************************************************)
(* class ShoppingData: each method as a function of the list it works on,  *)
(* giving the list afterwards, the value returned and the exception raised.*)
(***************************************************************************)
\* add that puts the new item in front
add_in_front(its, name, u) ==
    [items |-> <<[name |-> PyStr(name),
                  id |-> PyStr(hex(u)),
                  complete |-> PyBool(FALSE)]>> \o its,
     ret |-> None,
     exc |-> ""]

\* add that creates the item as completed
add_completed(its, name, u) ==
    [items |-> Append(its, [name |-> PyStr(name),
                            id |-> PyStr(hex(u)),
                            complete |-> PyBool(TRUE)]),
     ret |-> None,
     exc |-> ""]

\* add that assigns a list of the new item alone
add_overwriting(its, name, u) ==
    [items |-> <<[name |-> PyStr(name),
                  id |-> PyStr(hex(u)),
                  complete |-> PyBool(FALSE)]>>,
     ret |-> None,
     exc |-> ""]

\* add that stores the new item in the last slot of the list
add_replacing_last(its, name, u) ==
    [items |-> SubSeq(its, 1, Len(its) - 1)
                  \o <<[name |-> PyStr(name),
                        id |-> PyStr(hex(u)),
                        complete |-> PyBool(FALSE)]>>,
     ret |-> None,
     exc |-> ""]

add(its, name, u) ==
    [items |-> Append(its, [name |-> PyStr(name),
                            id |-> PyStr(hex(u)),
                            complete |-> PyBool(FALSE)]),
     ret |-> None,
     exc |-> ""]

\* next((itm for itm in self.items if itm['id'] == item_id), None)
find(its, item_id) ==
    LET hits == {i \in 1..Len(its) : its[i]["id"] = PyStr(item_id)}
    IN  IF hits = {} THEN 0
        ELSE CHOOSE i \in hits : \A j \in hits : i <= j

\* update that validates info before it looks the item up
update_validating_first(its, item_id, info) ==
    LET i == find(its, item_id)
        checked == ITEM_UPDATE_SCHEMA(info)
    IN  IF ~checked.ok
        THEN [items |-> its, ret |-> None, exc |-> "Invalid"]
        ELSE IF i = 0
        THEN [items |-> its, ret |-> None, exc |-> "KeyError"]
        ELSE LET item == dict_update(its[i], checked.value)
             IN  [items |-> [its EXCEPT ![i] = item],
                  ret |-> item,
                  exc |-> ""]

\* update that writes the fields of info one by one and stops at the first
\* one the schema refuses
update_field_by_field(its, item_id, info) ==
    LET i == find(its, item_id)
        checked == ITEM_UPDATE_SCHEMA(info)
        good == {k \in DOMAIN info :
                    k \in DOMAIN SchemaTypes /\ info[k].type = SchemaTypes[k]}
    IN  IF i = 0
        THEN [items |-> its, ret |-> None, exc |-> "KeyError"]
        ELSE IF ~checked.ok
        THEN [items |-> [its EXCEPT
                            ![i] = dict_update(its[i], [k \in good |-> info[k]])],
              ret |-> None,
              exc |-> "Invalid"]
        ELSE LET item == dict_update(its[i], checked.value)
             IN  [items |-> [its EXCEPT ![i] = item],
                  ret |-> item,
                  exc |-> ""]

\* update that drops the item from the list once it is complete
update_deleting_completed(its, item_id, info) ==
    LET i == find(its, item_id)
        checked == ITEM_UPDATE_SCHEMA(info)
    IN  IF i = 0
        THEN [items |-> its, ret |-> None, exc |-> "KeyError"]
        ELSE IF ~checked.ok
        THEN [items |-> its, ret |-> None, exc |-> "Invalid"]
        ELSE LET item == dict_update(its[i], checked.value)
             IN  [items |-> IF item["complete"] = PyBool(TRUE)
                            THEN SubSeq(its, 1, i - 1)
                                    \o SubSeq(its, i + 1, Len(its))
                            ELSE [its EXCEPT ![i] = item],
                  ret |-> item,
                  exc |-> ""]

\* update that creates the item when no item has the id
update_inserting_missing(its, item_id, info) ==
    LET i == find(its, item_id)
        checked == ITEM_UPDATE_SCHEMA(info)
    IN  IF ~checked.ok /\ i = 0
        THEN [items |-> its, ret |-> None, exc |-> "KeyError"]
        ELSE IF ~checked.ok
        THEN [items |-> its, ret |-> None, exc |-> "Invalid"]
        ELSE IF i = 0
        THEN LET item == dict_update([name |-> PyStr(""),
                                      id |-> PyStr(item_id),
                                      complete |-> PyBool(FALSE)],
                                     checked.value)
             IN  [items |-> Append(its, item), ret |-> item, exc |-> ""]
        ELSE LET item == dict_update(its[i], checked.value)
             IN  [items |-> [its EXCEPT ![i] = item],
                  ret |-> item,
                  exc |-> ""]

update(its, item_id, info) ==
    LET i == find(its, item_id)
        checked == ITEM_UPDATE_SCHEMA(info)
    IN  IF i = 0
        THEN [items |-> its, ret |-> None, exc |-> "KeyError"]
        ELSE IF ~checked.ok
        THEN [items |-> its, ret |-> None, exc |-> "Invalid"]
        ELSE LET item == dict_update(its[i], checked.value)
             IN  [items |-> [its EXCEPT ![i] = item],
                  ret |-> item,
                  exc |-> ""]

\* bool(v), as 'not v' takes it
truthy(v) ==
    CASE v.type = "bool" -> v.b
      [] v.type = "str" -> v.s # ""
      [] v.type = "int" -> v.n # 0
      [] v.type = "NoneType" -> FALSE

RECURSIVE remove_while_iterating(_, _)
\* for itm in items: if itm['complete']: items.remove(itm)
\* (the iterator moves on by index, so the item after a removed one is skipped)
remove_while_iterating(its, i) ==
    IF i > Len(its) THEN its
    ELSE IF truthy(its[i]["complete"])
    THEN remove_while_iterating(
             SubSeq(its, 1, i - 1) \o SubSeq(its, i + 1, Len(its)), i + 1)
    ELSE remove_while_iterating(its, i + 1)

\* clear_completed that removes from the list it iterates over
clear_completed_in_place(its) ==
    [items |-> remove_while_iterating(its, 1),
     ret |-> None,
     exc |-> ""]

\* clear_completed with the test the wrong way round
clear_completed_inverted(its) ==
    [items |-> SelectSeq(its, LAMBDA itm : truthy(itm["complete"])),
     ret |-> None,
     exc |-> ""]

clear_completed(its) ==
    [items |-> SelectSeq(its, LAMBDA itm : ~truthy(itm["complete"])),
     ret |-> None,
     exc |-> ""]

(***************************************************************************)
(* State.                                                                  *)
(***************************************************************************)
VARIABLES
    items,      \* hass.data[DOMAIN].items
    issued,     \* the values uuid4 delivered so far, in order
    call,       \* the last call of a store method and its outcome
    posts,      \* the bag of item ids of the update requests that wait
                \* for their body
    fired,      \* number of times the last handler fired EVENT on the bus
    seen,       \* the list as it was in the store when the last handler
                \* fired EVENT
    response,   \* the last response a front-end gave
    bus,        \* number of fired events whose listener has not run yet
    listener    \* what became of the listener that was started last

vars == <<items, issued, call, posts, fired, seen, response, bus, listener>>

Call(op, res) == [op |-> op, ret |-> res.ret, exc |-> res.exc]

NoCall == [op |-> "", ret |-> None, exc |-> ""]

NoResponse ==
    [kind |-> "", status |-> 0, item |-> None, list |-> <<>>,
     message |-> "", speech |-> "", exc |-> ""]

\* async_setup: hass.data[DOMAIN] = ShoppingData([])
Init ==
    /\ items = <<>>
    /\ issued = <<>>
    /\ call = NoCall
    /\ posts = EmptyBag
    /\ fired = 0
    /\ seen = <<>>
    /\ response = NoResponse
    /\ bus = 0
    /\ listener = "idle"

(***************************************************************************)
(* Direct calls of the store's methods.                                    *)
(***************************************************************************)
CallAdd(name) ==
    \E u \in uuid4(issued) :
        LET res == add(items, name, u)
        IN  /\ Len(issued) < MaxIds
            /\ items' = res.items
            /\ issued' = Append(issued, u)
            /\ call' = Call("add", res)
            /\ UNCHANGED <<posts, fired, seen, response, bus, listener>>

CallUpdate(item_id, info) ==
    LET res == update(items, item_id, info)
    IN  /\ items' = res.items
        /\ call' = Call("update", res)
        /\ UNCHANGED <<issued, posts, fired, seen, response, bus, listener>>

CallClearCompleted ==
    LET res == clear_completed(items)
    IN  /\ items' = res.items
        /\ call' = Call("clear_completed", res)
        /\ UNCHANGED <<issued, posts, fired, seen, response, bus, listener>>

NextStore ==
    \/ \E name \in Names : CallAdd(name)
    \/ \E item_id \in ItemIds : \E info \in Patches : CallUpdate(item_id, info)
    \/ CallClearCompleted

SpecStore == Init /\ [][NextStore]_vars

(***************************************************************************)
(* The event bus. hass.bus.async_fire(EVENT) is called and not waited for: *)
(* it hands the event to the bus and returns; the bus runs the listeners   *)
(* later, each on its own. A bus that is full drops the event.             *)
(***************************************************************************)
\* async_fire that returns when the listeners have run
async_fire_awaiting(b, l) ==
    [returned |-> b = 0 /\ l # "running",
     bus |-> IF b < MaxBus THEN b + 1 ELSE b]

\* hass.bus.async_fire(EVENT) with b events held and the listener in state l
async_fire(b, l) ==
    [returned |-> TRUE,
     bus |-> IF b < MaxBus THEN b + 1 ELSE b]

\* the bus starts the listener of an event it holds
ListenerStart ==
    /\ bus > 0
    /\ bus' = bus - 1
    /\ listener' = "running"
    /\ UNCHANGED <<items, issued, call, posts, fired, seen, response>>

\* the listener ends
ListenerEnd ==
    /\ listener = "running"
    /\ listener' = "done"
    /\ UNCHANGED <<items, issued, call, posts, fired, seen, response, bus>>

\* the listener raises
ListenerFail ==
    /\ listener = "running"
    /\ listener' = "failed"
    /\ UNCHANGED <<items, issued, call, posts, fired, seen, response, bus>>

(***************************************************************************)
(* Intent handlers.                                                        *)
(***************************************************************************)
RECURSIVE DecStr(_)
\* str(n) of a non-negative int
DecStr(n) == IF n < 10 THEN HexDigit(n) ELSE DecStr(n \div 10) \o HexDigit(n % 10)

\* slot_schema = {'item': cv.string}: str(value), None is refused
cv_string(v) ==
    CASE v.type = "NoneType" -> [ok |-> FALSE, value |-> ""]
      [] v.type = "str" -> [ok |-> TRUE, value |-> v.s]
      [] v.type = "int" -> [ok |-> TRUE, value |-> DecStr(v.n)]
      [] v.type = "bool" -> [ok |-> TRUE, value |-> IF v.b THEN "True" ELSE "False"]

Speech(text) == [NoResponse EXCEPT !.kind = "intent", !.speech = text]

\* AddItemIntent.async_handle: no suspension point, one step
AddItemIntent_async_handle(slot) ==
    LET slots == cv_string(slot)
    IN  IF ~slots.ok
        THEN /\ response' = [NoResponse EXCEPT !.kind = "intent", !.exc = "Invalid"]
             /\ fired' = 0
             /\ seen' = <<>>
             /\ UNCHANGED <<items, issued, call, posts, bus, listener>>
        ELSE /\ Len(issued) < MaxIntents
             /\ \E u \in uuid4(issued) :
                    LET res == add(items, slots.value, u)
                    IN  /\ items' = res.items
                        /\ issued' = Append(issued, u)
                        /\ call' = Call("add", res)
                        /\ seen' = res.items
             /\ response' = Speech("I've added " \o slots.value
                                   \o " to your shopping list")
             /\ async_fire(bus, listener).returned
             /\ fired' = 1
             /\ bus' = async_fire(bus, listener).bus
             /\ UNCHANGED <<posts, listener>>

\* items[:5]
LastItems_from_front(its) ==
    SubSeq(its, 1, IF Len(its) > TopN THEN TopN ELSE Len(its))

\* items[-5:]
LastItems(its) ==
    SubSeq(its, IF Len(its) > TopN THEN Len(its) - TopN + 1 ELSE 1, Len(its))

\* reversed(items)
reversed(its) == [i \in 1..Len(its) |-> its[Len(its) + 1 - i]]

RECURSIVE join(_, _)
\* sep.join(strs)
join(sep, strs) ==
    IF Len(strs) = 0 THEN ""
    ELSE IF Len(strs) = 1 THEN strs[1]
    ELSE strs[1] \o sep \o join(sep, Tail(strs))

min(a, b) == IF a < b THEN a ELSE b

TopItemsSpeech(its) ==
    LET last == LastItems(its)
    IN  IF Len(last) = 0
        THEN "There are no items on your shopping list"
        ELSE "These are the top " \o DecStr(min(Len(last), TopN))
             \o " items on your shopping list: "
             \o join(", ", [i \in 1..Len(last) |-> reversed(last)[i]["name"].s])

\* ListTopItemsIntent.async_handle
ListTopItemsIntent_async_handle ==
    /\ response' = Speech(TopItemsSpeech(items))
    /\ fired' = 0
    /\ seen' = <<>>
    /\ UNCHANGED <<items, issued, call, posts, bus, listener>>

(***************************************************************************)
(* HTTP views.                                                             *)
(***************************************************************************)
json(status, item) ==
    [NoResponse EXCEPT !.kind = "http", !.status = status, !.item = item]

json_message(message, status) ==
    [NoResponse EXCEPT !.kind = "http", !.status = status, !.message = message]

\* ShoppingListView.get
ShoppingListView_get ==
    /\ response' = [NoResponse EXCEPT !.kind = "http", !.status = HTTP_OK,
                                      !.list = items]
    /\ fired' = 0
    /\ seen' = <<>>
    /\ UNCHANGED <<items, issued, call, posts, bus, listener>>

\* UpdateShoppingListItemView.post up to 'yield from request.json()': the
\* handler is suspended while the body is read
UpdateShoppingListItemView_post_begin(item_id) ==
    /\ BagCardinality(posts) < MaxReqs
    /\ posts' = posts (+) SetToBag({item_id})
    /\ UNCHANGED <<items, issued, call, fired, seen, response, bus, listener>>

\* post with both failures answered as a bad request
post_one_status(its, item_id, data) ==
    LET res == update(its, item_id, data)
    IN  [items |-> res.items,
         call |-> Call("update", res),
         fire |-> res.exc = "",
         seen |-> IF res.exc = "" THEN res.items ELSE <<>>,
         response |->
            IF res.exc = "" THEN json(HTTP_OK, res.ret)
            ELSE json_message("Item not found", HTTP_BAD_REQUEST)]

\* post that fires EVENT before it calls update
post_fire_first(its, item_id, data) ==
    LET res == update(its, item_id, data)
    IN  [items |-> res.items,
         call |-> Call("update", res),
         fire |-> TRUE,
         seen |-> its,
         response |->
            CASE res.exc = "" -> json(HTTP_OK, res.ret)
              [] res.exc = "KeyError" ->
                    json_message("Item not found", HTTP_NOT_FOUND)
              [] res.exc = "Invalid" ->
                    json_message("Item not found", HTTP_BAD_REQUEST)]

\* post that fires EVENT in a finally clause
post_fire_always(its, item_id, data) ==
    LET res == update(its, item_id, data)
    IN  [items |-> res.items,
         call |-> Call("update", res),
         fire |-> TRUE,
         seen |-> res.items,
         response |->
            CASE res.exc = "" -> json(HTTP_OK, res.ret)
              [] res.exc = "KeyError" ->
                    json_message("Item not found", HTTP_NOT_FOUND)
              [] res.exc = "Invalid" ->
                    json_message("Item not found", HTTP_BAD_REQUEST)]

\* UpdateShoppingListItemView.post from the body on, as a function of the
\* list: the list afterwards, the outcome of update, whether EVENT is fired,
\* the list at that moment and the response
post(its, item_id, data) ==
    LET res == update(its, item_id, data)
    IN  [items |-> res.items,
         call |-> Call("update", res),
         fire |-> res.exc = "",
         seen |-> IF res.exc = "" THEN res.items ELSE <<>>,
         response |->
            CASE res.exc = "" -> json(HTTP_OK, res.ret)
              [] res.exc = "KeyError" ->
                    json_message("Item not found", HTTP_NOT_FOUND)
              [] res.exc = "Invalid" ->
                    json_message("Item not found", HTTP_BAD_REQUEST)]

\* the handler is resumed with the body and runs to its end in one step
UpdateShoppingListItemView_post(item_id, data) ==
    /\ BagIn(item_id, posts)
    /\ posts' = posts (-) SetToBag({item_id})
    /\ LET out == post(items, item_id, data)
       IN  /\ items' = out.items
           /\ call' = out.call
           /\ out.fire => async_fire(bus, listener).returned
           /\ fired' = IF out.fire THEN 1 ELSE 0
           /\ seen' = out.seen
           /\ bus' = IF out.fire THEN async_fire(bus, listener).bus ELSE bus
           /\ response' = out.response
    /\ UNCHANGED <<issued, listener>>

Next ==
    \/ \E slot \in Slots : AddItemIntent_async_handle(slot)
    \/ ListTopItemsIntent_async_handle
    \/ ShoppingListView_get
    \/ \E item_id \in ItemIds : UpdateShoppingListItemView_post_begin(item_id)
    \/ \E item_id \in ItemIds : \E data \in Bodies :
           UpdateShoppingListItemView_post(item_id, data)
    \/ CallClearCompleted

Spec == Init /\ [][Next]_vars

\* the front-ends that write, with the listeners of the event; a listener
\* that never ends is one that stays "running"
\* the HTTP views next to the writers that do not come through them
NextHttp ==
    \/ \E slot \in Slots : AddItemIntent_async_handle(slot)
    \/ ShoppingListView_get
    \/ \E item_id \in ItemIds : UpdateShoppingListItemView_post_begin(item_id)
    \/ \E item_id \in ItemIds : \E data \in Bodies :
           UpdateShoppingListItemView_post(item_id, data)
    \/ CallClearCompleted

SpecHttp == Init /\ [][NextHttp]_vars

\* the writes the listeners run next to: add-item commands with and without
\* the slot, and HTTP updates that complete an item
BusSlots == {PyStr("milk"), None}

BusBodies == {"complete" :> PyBool(TRUE)}

NextBus ==
    \/ \E slot \in BusSlots : AddItemIntent_async_handle(slot)
    \/ \E item_id \in ItemIds : UpdateShoppingListItemView_post_begin(item_id)
    \/ \E item_id \in ItemIds : \E data \in BusBodies :
           UpdateShoppingListItemView_post(item_id, data)
    \/ ListenerStart
    \/ ListenerEnd
    \/ ListenerFail

SpecBus == Init /\ [][NextBus]_vars

(***************************************************************************)
(* Concurrent adds with distinct names.  Neither add nor the intent        *)
(* handler has a suspension point, so the event loop runs the concurrent   *)
(* calls one after the other in an order it chooses.                       *)
(***************************************************************************)
AddNames == {"milk", "eggs", "bread", "tea"}

StoredNames(its) == {its[i]["name"] : i \in 1..Len(its)}

AddDistinct(name) ==
    /\ PyStr(name) \notin StoredNames(items)
    /\ CallAdd(name)

AddDistinctIntent(name) ==
    /\ PyStr(name) \notin StoredNames(items)
    /\ AddItemIntent_async_handle(PyStr(name))

NextAdds ==
    \/ \E name \in AddNames : AddDistinct(name)
    \/ \E name \in AddNames : AddDistinctIntent(name)
    \/ ShoppingListView_get

SpecAdds == Init /\ [][NextAdds]_vars

(***************************************************************************)
(* The top-items query on lists of up to MaxList items.  The lists are the *)
(* ones that adds, updates of 'complete' and removals leave behind: ids in *)
(* the order uuid4 delivered them.                                         *)
(***************************************************************************)
TopNames == {"eggs", "bread"}

StoredLists ==
    UNION {[1..n -> TopNames \X BOOLEAN] : n \in 0..MaxList}

ListOf(f) ==
    [i \in 1..Len(f) |-> [name |-> PyStr(f[i][1]),
                          id |-> PyStr(hex(i)),
                          complete |-> PyBool(f[i][2])]]

InitTop ==
    /\ \E f \in StoredLists :
          /\ items = ListOf(f)
          /\ issued = [i \in 1..Len(f) |-> i]
    /\ call = NoCall
    /\ posts = EmptyBag
    /\ fired = 0
    /\ seen = <<>>
    /\ response = NoResponse
    /\ bus = 0
    /\ listener = "idle"

NextTop ==
    \/ ListTopItemsIntent_async_handle
    \/ CallClearCompleted

SpecTop == InitTop /\ [][NextTop]_vars

(***************************************************************************)
(* Properties.                                                             *)
(***************************************************************************)
Ids(its) == {its[i]["id"] : i \in 1..Len(its)}

\* the ids given to items so far
AssignedIds == {PyStr(hex(issued[k])) : k \in 1..Len(issued)}

DistinctIds(its) ==
    \A i, j \in 1..Len(its) : i # j => its[i]["id"] # its[j]["id"]

\* C1: in every reachable state the ids of the items in the store are
\* pairwise distinct, and an id that appears in the store in a step was not
\* assigned to any item before that step, also when that item was removed by
\* clear_completed in the meantime.
C1_UniqueIds ==
    /\ [](DistinctIds(items))
    /\ [][\A i \in 1..Len(items') :
             items'[i]["id"] \notin Ids(items)
                => items'[i]["id"] \notin AssignedIds]_vars

\* an item was removed by clear_completed and an item was added after that
C1_Witness ==
    /\ Len(issued) = 3
    /\ PyStr(hex(issued[1])) \notin Ids(items)
    /\ PyStr(hex(issued[3])) \in Ids(items)
    /\ call.op = "add"

\* the position of an id in the order of creation
CreationIndex(id) == CHOOSE k \in 1..Len(issued) : PyStr(hex(issued[k])) = id

\* C2: the order of the items is the order of their creation: of two items in
\* the store the one created earlier is at the smaller index, whatever add,
\* update and clear_completed calls were made.
C2_CreationOrder ==
    /\ Ids(items) \subseteq AssignedIds
    /\ \A i, j \in 1..Len(items) :
          i < j => CreationIndex(items[i]["id"]) < CreationIndex(items[j]["id"])

\* two items are left around a removed one and the last call was an update
\* that succeeded
C2_Witness ==
    /\ Len(issued) = 3
    /\ Len(items) = 2
    /\ items[1]["id"] = PyStr(hex(issued[1]))
    /\ items[2]["id"] = PyStr(hex(issued[3]))
    /\ call.op = "update"
    /\ call.exc = ""

NewItem(name, id) == [name |-> PyStr(name), id |-> id, complete |-> PyBool(FALSE)]

\* C3 as stated: the value add returns is the item it appended.
C3_AddReturnsItem ==
    call.op = "add" => Len(items) > 0 /\ call.ret = items[Len(items)]

\* C3, amended: add returns no value (None) and raises nothing; the item it
\* created is the last one of the store, with a newly assigned id, the given
\* name and complete = False.
C3_AddReturnsNone ==
    [][\A name \in Names :
          CallAdd(name) =>
             /\ call'.ret = None
             /\ call'.exc = ""
             /\ Len(items') > 0
             /\ LET item == items'[Len(items')]
                IN  /\ item = NewItem(name, item["id"])
                    /\ item["id"] \notin AssignedIds]_vars

\* add was called on a store that holds items
C3_Witness ==
    /\ call.op = "add"
    /\ call.ret = None
    /\ Len(items) >= 2
    /\ items[Len(items)]["name"] = PyStr("milk")

\* C4: add(name), for any name, also the empty one, grows the list by one
\* item at the end with that name, complete = False and a fresh, non-empty
\* id, and leaves every item that was in the store as it was and where it
\* was; the list read gives the items of the store, so after add on the empty
\* store it gives exactly the one new item.
C4_AddFrame ==
    [][/\ \A slot \in Slots :
             issued' # issued /\ cv_string(slot).ok
             /\ AddItemIntent_async_handle(slot) =>
                /\ Len(items') = Len(items) + 1
                /\ SubSeq(items', 1, Len(items)) = items
                /\ LET item == items'[Len(items')]
                   IN  /\ item = NewItem(cv_string(slot).value, item["id"])
                       /\ item["id"].type = "str"
                       /\ Len(item["id"].s) > 0
                       /\ item["id"] \notin Ids(items)
                       /\ item["id"] \notin AssignedIds
       /\ ShoppingListView_get =>
             /\ response'.status = HTTP_OK
             /\ response'.list = items
             /\ items' = items
             /\ (call.op = "add" /\ Len(issued) = 1 =>
                    /\ Len(response'.list) = 1
                    /\ response'.list[1]["name"].s \in Names
                    /\ response'.list[1]["complete"] = PyBool(FALSE)
                    /\ Len(response'.list[1]["id"].s) > 0)]_vars

\* the list was read after add("milk") on the empty store
C4_Witness ==
    /\ Len(issued) = 1
    /\ call.op = "add"
    /\ response.kind = "http"
    /\ response.list = <<NewItem("milk", PyStr(hex(issued[1])))>>
    /\ response.list = items

Exists(its, item_id) == \E i \in 1..Len(its) : its[i]["id"] = PyStr(item_id)

IndexOf(its, item_id) == CHOOSE i \in 1..Len(its) : its[i]["id"] = PyStr(item_id)

\* the info has a key other than name and complete, or a value of the wrong
\* type
Malformed(info) ==
    \/ \E k \in DOMAIN info : k \notin {"name", "complete"}
    \/ "name" \in DOMAIN info /\ info["name"].type # "str"
    \/ "complete" \in DOMAIN info /\ info["complete"].type # "bool"

\* C5: an update that succeeds changes, on the item with the id, the fields
\* the patch has and nothing else: the fields the patch does not have keep
\* their values, the item keeps its id and its keys, every other item, the
\* number of items and their order stay, and the item returned is the updated
\* one.
C5_PartialUpdate ==
    [][\A item_id \in ItemIds : \A info \in Patches :
          call'.exc = "" /\ CallUpdate(item_id, info) =>
             /\ Exists(items, item_id)
             /\ Len(items') = Len(items)
             /\ LET i == IndexOf(items, item_id)
                IN  /\ \A j \in 1..Len(items) : j # i => items'[j] = items[j]
                    /\ DOMAIN items'[i] = DOMAIN items[i]
                    /\ \A k \in DOMAIN items[i] :
                          items'[i][k] = IF k \in DOMAIN info THEN info[k]
                                         ELSE items[i][k]
                    /\ items'[i]["id"] = items[i]["id"]
                    /\ call'.ret = items'[i]]_vars

\* an item with the empty name was completed next to another item
C5_Witness ==
    /\ call.op = "update"
    /\ call.exc = ""
    /\ Len(items) >= 2
    /\ call.ret = items[2]
    /\ call.ret["name"] = PyStr("")
    /\ call.ret["complete"] = PyBool(TRUE)

\* C6: update with an id that no item of the store has raises KeyError
\* (NotFound), whether the info is valid or not, and leaves the store as it
\* was: a step either has that outcome or is no update call with such an id.
C6_NotFound ==
    [][\/ /\ call'.exc = "KeyError"
          /\ call'.ret = None
          /\ items' = items
          /\ issued' = issued
       \/ \A item_id \in ItemIds : \A info \in Patches :
             ~Exists(items, item_id) => ~CallUpdate(item_id, info)]_vars

\* update failed with KeyError on a store that holds items, for an id that
\* was cleared
C6_Witness ==
    /\ call.op = "update"
    /\ call.exc = "KeyError"
    /\ Len(items) > 0
    /\ Len(issued) > Len(items)

\* C7: update of an existing item with an info that has an unrecognized key
\* (id included) or a value of the wrong type raises vol.Invalid
\* (ValidationError) and changes nothing, also when the info has a valid
\* field next to the invalid one: a step either has that outcome or is no
\* update call of an existing item with such an info.
C7_ValidationError ==
    [][\/ /\ call'.exc = "Invalid"
          /\ call'.ret = None
          /\ items' = items
       \/ \A item_id \in ItemIds : \A info \in Patches :
             Exists(items, item_id) /\ Malformed(info)
                => ~CallUpdate(item_id, info)]_vars

\* update failed with vol.Invalid on a store with an item that is not complete
C7_Witness ==
    /\ call.op = "update"
    /\ call.exc = "Invalid"
    /\ \E i \in 1..Len(items) :
          items[i]["name"] = PyStr("") /\ items[i]["complete"] = PyBool(FALSE)

\* the indices of the items that are not complete
Open(its) == {i \in 1..Len(its) : its[i]["complete"] = PyBool(FALSE)}

\* the k-th smallest element of a set of indices
Nth(S, k) == CHOOSE i \in S : Cardinality({j \in S : j <= i}) = k

\* C8: clear_completed leaves exactly the items that had complete = False,
\* each as it was and in the same relative order, and no item with
\* complete = True.
C8_ClearCompleted ==
    [][CallClearCompleted =>
          /\ Len(items') = Cardinality(Open(items))
          /\ \A k \in 1..Len(items') : items'[k] = items[Nth(Open(items), k)]
          /\ \A k \in 1..Len(items') : items'[k]["complete"] # PyBool(TRUE)]_vars

\* clear_completed took the item in the middle and left the two around it
C8_Witness ==
    /\ call.op = "clear_completed"
    /\ Len(issued) = 3
    /\ Len(items) = 2
    /\ items[1]["id"] = PyStr(hex(issued[1]))
    /\ items[2]["id"] = PyStr(hex(issued[3]))

\* C9: clear_completed is idempotent: from every reachable state of the
\* store a second call right after a first one leaves what the first one
\* left.
C9_ClearIdempotent ==
    /\ clear_completed(clear_completed(items).items).items
          = clear_completed(items).items
    /\ call.op = "clear_completed" => clear_completed(items).items = items

\* a store with two completed items next to each other and one that is not
C9_Witness ==
    /\ Len(items) = 3
    /\ items[1]["complete"] = PyBool(TRUE)
    /\ items[2]["complete"] = PyBool(TRUE)
    /\ items[3]["complete"] = PyBool(FALSE)

\* C10: the HTTP update answers 200 with the updated item when the id exists
\* and the body is valid, 404 with "Item not found" when the id does not
\* exist, whatever the body, and 400 with the same message when the id exists
\* and the body fails the schema.
C10_HttpStatus ==
    [][\A item_id \in ItemIds : \A data \in Bodies :
          posts' # posts /\ UpdateShoppingListItemView_post(item_id, data) =>
             /\ response'.kind = "http"
             /\ IF ~Exists(items, item_id)
                THEN /\ response'.status = HTTP_NOT_FOUND
                     /\ response'.message = "Item not found"
                     /\ response'.item = None
                     /\ items' = items
                ELSE IF Malformed(data)
                THEN /\ response'.status = HTTP_BAD_REQUEST
                     /\ response'.message = "Item not found"
                     /\ response'.item = None
                     /\ items' = items
                ELSE /\ response'.status = HTTP_OK
                     /\ response'.message = ""
                     /\ response'.item = items'[IndexOf(items, item_id)]
                     /\ response'.item["id"] = PyStr(item_id)]_vars

\* a request with an existing id and a body that fails the schema was
\* answered
C10_Witness ==
    /\ response.kind = "http"
    /\ response.status = HTTP_BAD_REQUEST
    /\ response.message = "Item not found"
    /\ call.op = "update"
    /\ call.exc = "Invalid"

\* the item with every field of the patch written to it
Patched(item, patch) ==
    [k \in DOMAIN item |-> IF k \in DOMAIN patch THEN patch[k] ELSE item[k]]

\* C11: every add-item command that passes its slot check and every HTTP
\* update that is answered 200 fires EVENT exactly once, and at the moment it
\* is fired the store already holds the result of the mutation (the new item,
\* the patched item), which is what a listener that fetches the list gets.
C11_FiredAfterMutation ==
    [][/\ \A slot \in Slots :
             issued' # issued /\ cv_string(slot).ok
             /\ AddItemIntent_async_handle(slot) =>
                /\ fired' = 1
                /\ seen' = items'
                /\ Len(seen') = Len(items) + 1
                /\ seen'[Len(seen')]["name"] = PyStr(cv_string(slot).value)
       /\ \A item_id \in ItemIds : \A data \in Bodies :
             posts' # posts /\ response'.status = HTTP_OK
             /\ UpdateShoppingListItemView_post(item_id, data) =>
                /\ fired' = 1
                /\ seen' = items'
                /\ Exists(items, item_id)
                /\ seen'[IndexOf(items, item_id)]
                      = Patched(items[IndexOf(items, item_id)], data)]_vars

\* an HTTP update that completed an item has fired the event
C11_Witness ==
    /\ fired = 1
    /\ response.kind = "http"
    /\ response.status = HTTP_OK
    /\ "complete" \in DOMAIN response.item
    /\ response.item["complete"] = PyBool(TRUE)
    /\ seen = items
    /\ \E i \in 1..Len(seen) : seen[i] = response.item

\* C12: however the concurrent adds with distinct names are ordered, each
\* succeeds and the store holds one item per add made so far, one per name,
\* all with different ids.
C12_NoLostAdd ==
    /\ call.exc = ""
    /\ response.exc = ""
    /\ Len(items) = Len(issued)
    /\ Cardinality(Ids(items)) = Len(items)
    /\ Cardinality(StoredNames(items)) = Len(items)

\* three adds were made, the second-named item before the first-named one
C12_Witness ==
    /\ Len(issued) = 3
    /\ Len(items) = 3
    /\ items[1]["name"] = PyStr("eggs")
    /\ items[2]["name"] = PyStr("milk")
    /\ items[3]["name"] = PyStr("bread")

\* the ids of the values uuid4 has delivered, by table
HexOf == [u \in 0..(MaxIds + 1) |-> hex(u)]

\* an item of the store as add builds it and update keeps it
WholeItem(itm, assigned) ==
    /\ DOMAIN itm = {"name", "id", "complete"}
    /\ itm["id"] \in assigned
    /\ itm["name"].type = "str"
    /\ itm["complete"].type = "bool"

\* C13: every step of every interleaving of the handlers, the suspension of
\* the HTTP update handler at its body read included, takes the store from
\* one whole state to another: an id is handed out in the same step that
\* appends its item, a request that waits for its body has touched nothing,
\* and the resumed update either writes every field of its patch or none.
C13_Indivisible ==
    [][/\ \A i \in 1..Len(items') : WholeItem(items'[i],
                                  {PyStr(HexOf[issued'[k]]) :
                                      k \in 1..Len(issued')})
       /\ issued' # issued =>
             /\ Len(items') = Len(items) + 1
             /\ SubSeq(items', 1, Len(items)) = items
             /\ items'[Len(items')]["id"] = PyStr(HexOf[issued'[Len(issued')]])
       /\ posts' # posts /\ BagCardinality(posts') > BagCardinality(posts) =>
             items' = items /\ issued' = issued
       /\ \A item_id \in ItemIds : \A data \in Bodies :
             posts' # posts /\ UpdateShoppingListItemView_post(item_id, data) =>
                IF response'.status = HTTP_OK
                THEN items' = [items EXCEPT ![IndexOf(items, item_id)] =
                                  Patched(items[IndexOf(items, item_id)], data)]
                ELSE items' = items]_vars

\* a request that had waited for its body wrote a two-field patch to one of
\* two items
C13_Witness ==
    /\ call.op = "update"
    /\ response.status = HTTP_OK
    /\ "name" \in DOMAIN response.item
    /\ response.item["name"] = PyStr("milk")
    /\ response.item["complete"] = PyBool(TRUE)
    /\ \E i \in 1..Len(items) : items[i] = response.item
    /\ Len(items) = 2

\* C14: whatever the listeners of EVENT do (not yet started, running for
\* ever, failed), a valid add-item command and an HTTP update whose body has
\* arrived can run and return; when they run they answer with success; and
\* no step of a listener changes the store or the response already given.
C14_FireAndForget ==
    /\ [](/\ Len(issued) < MaxIntents =>
                ENABLED AddItemIntent_async_handle(PyStr("milk"))
          /\ \A item_id \in ItemIds :
                BagIn(item_id, posts) =>
                   ENABLED UpdateShoppingListItemView_post(
                               item_id, "complete" :> PyBool(TRUE)))
    /\ [][/\ listener' # listener \/ bus' < bus =>
                items' = items /\ response' = response /\ call' = call
          /\ AddItemIntent_async_handle(PyStr("milk")) =>
                response'.exc = "" /\ Len(items') = Len(items) + 1
          /\ \A item_id \in ItemIds :
                Exists(items, item_id)
                /\ UpdateShoppingListItemView_post(
                       item_id, "complete" :> PyBool(TRUE)) =>
                   response'.status = HTTP_OK]_vars

\* an HTTP update fired EVENT and was answered 200 while the listener of an
\* earlier event was still running
C14_Witness ==
    /\ listener = "running"
    /\ bus = MaxBus
    /\ fired = 1
    /\ response.status = HTTP_OK
    /\ call.op = "update"

RECURSIVE CommaList(_)
\* the names, each but the first after a comma and a blank
CommaList(names) ==
    IF Len(names) = 1 THEN names[1]
    ELSE CommaList(SubSeq(names, 1, Len(names) - 1))
            \o ", " \o names[Len(names)]

\* the names of the last k items of the store, the last item first
NewestNames(its, k) == [i \in 1..k |-> its[Len(its) + 1 - i]["name"].s]

\* C15: the top-items query answers with the names of the last min(5, n)
\* items of the store, the most recently added first, and announces that
\* number; on an empty store it answers the fixed empty-list message without
\* an error; it changes nothing in the store and fires no event.
C15_TopItems ==
    [][ListTopItemsIntent_async_handle =>
          LET k == IF Len(items) < 5 THEN Len(items) ELSE 5
          IN  /\ response'.kind = "intent"
              /\ response'.exc = ""
              /\ response'.speech =
                    IF Len(items) = 0
                    THEN "There are no items on your shopping list"
                    ELSE "These are the top " \o DecStr(k)
                         \o " items on your shopping list: "
                         \o CommaList(NewestNames(items, k))
              /\ items' = items
              /\ issued' = issued
              /\ fired' = 0
              /\ bus' = bus]_vars

\* six items are in the store and the query lists the last five, newest first
C15_Witness ==
    /\ Len(items) = 6
    /\ items[1]["name"] = PyStr("bread")
    /\ items[6]["name"] = PyStr("bread")
    /\ response.speech =
          "These are the top 5 items on your shopping list: "
             \o "bread, eggs, eggs, eggs, eggs"

\* C16: no step changes the id of an item that stays in the store: add and
\* update leave every item at its position with its id, clear_completed
\* keeps the remaining items as they were; and update of an existing item
\* with a patch that has an 'id' key raises vol.Invalid and changes nothing.
C16_IdImmutable ==
    [][/\ call'.op \in {"add", "update"} =>
             /\ Len(items') >= Len(items)
             /\ \A i \in 1..Len(items) : items'[i]["id"] = items[i]["id"]
       /\ call'.op = "clear_completed" =>
             /\ Ids(items') \subseteq Ids(items)
             /\ \A i \in 1..Len(items') :
                   \E j \in i..Len(items) : items[j] = items'[i]
       /\ \/ call'.exc = "Invalid" /\ items' = items
          \/ \A item_id \in ItemIds : \A info \in Patches :
                Exists(items, item_id) /\ "id" \in DOMAIN info
                   => ~CallUpdate(item_id, info)]_vars

\* an update was refused on a store whose first item was renamed or completed
\* and still has the id of the first value uuid4 delivered
C16_Witness ==
    /\ call.op = "update"
    /\ call.exc = "Invalid"
    /\ Len(items) >= 2
    /\ items[1]["name"] = PyStr("milk")
    /\ items[1]["complete"] = PyBool(TRUE)
    /\ items[1]["id"] = PyStr(HexOf[issued[1]])

\* C17: an add step and an update step, failed or not, keep every item of
\* the store and never make the list shorter; and whatever the step, an item
\* that has complete = False before it is still in the store after it, so it
\* only leaves through an update to complete = True followed by
\* clear_completed.
C17_RemovedOnlyByClear ==
    [][/\ call'.op \in {"add", "update"} =>
             /\ Len(items') >= Len(items)
             /\ Ids(items) \subseteq Ids(items')
       /\ \A i \in Open(items) : items[i]["id"] \in Ids(items')
       /\ Len(items') < Len(items) =>
             /\ call'.op = "clear_completed"
             /\ \A i \in 1..Len(items) :
                   items[i]["id"] \notin Ids(items') =>
                      items[i]["complete"] = PyBool(TRUE)]_vars

\* clear_completed removed the first two of three items and kept the third,
\* which is not complete
C17_Witness ==
    /\ call.op = "clear_completed"
    /\ Len(issued) = 3
    /\ Len(items) = 1
    /\ items[1]["id"] = PyStr(HexOf[issued[3]])
    /\ items[1]["complete"] = PyBool(FALSE)

\* C18: an HTTP update that ends in 404 or 400 fires no event and leaves
\* the store as it was; the HTTP list read fires none either; a handler fires
\* at most once, and an event is only fired in a step in which add or update
\* succeeded.
C18_NoEventOnFailure ==
    [][/\ \A item_id \in ItemIds : \A data \in Bodies :
             posts' # posts
             /\ response'.status \in {HTTP_NOT_FOUND, HTTP_BAD_REQUEST}
             /\ UpdateShoppingListItemView_post(item_id, data) =>
                /\ fired' = 0
                /\ bus' = bus
                /\ items' = items
       /\ ShoppingListView_get => fired' = 0 /\ bus' = bus /\ items' = items
       /\ fired' \in {0, 1}
       /\ (fired' # fired \/ bus' # bus) /\ fired' = 1 =>
             /\ call'.op \in {"add", "update"}
             /\ call'.exc = ""
             /\ items' # items \/ response'.status = HTTP_OK]_vars

\* an HTTP update of an id that no item has was answered 404 and fired nothing
C18_Witness ==
    /\ response.kind = "http"
    /\ response.status = HTTP_NOT_FOUND
    /\ call.op = "update"
    /\ call.exc = "KeyError"
    /\ fired = 0
    /\ Len(items) = 2

\* the ids that were given to an item which is no longer in the store
Removed(its, iss) == {PyStr(HexOf[iss[k]]) : k \in 1..Len(iss)} \ Ids(its)

\* C19: an id whose item clear_completed has removed is in the store after
\* no later step, whatever the step is (an add, an update, a failed update);
\* and an HTTP update with such an id, also one that was waiting for its body
\* when the item was removed, is answered 404 and leaves the store as it was.
C19_NeverBack ==
    [][/\ items' # items =>
             \A id \in Removed(items, issued) : id \notin Ids(items')
       /\ \A item_id \in ItemIds :
             posts' # posts /\ PyStr(item_id) \in Removed(items, issued) =>
                \A data \in Bodies :
                   UpdateShoppingListItemView_post(item_id, data) =>
                      /\ response'.status = HTTP_NOT_FOUND
                      /\ call'.exc = "KeyError"
                      /\ items' = items]_vars

\* clear_completed has removed an item while an update request for its id is
\* waiting for its body
C19_Witness ==
    /\ call.op = "clear_completed"
    /\ \E item_id \in ItemIds :
          /\ PyStr(item_id) \in Removed(items, issued)
          /\ BagIn(item_id, posts)

\* C20: an HTTP update of an existing item with the empty JSON object as
\* body is accepted: update returns the item as it is, no item of the store
\* changes, the answer is 200 with that item, and EVENT is fired once.
C20_EmptyPatch ==
    [][\A item_id \in ItemIds :
          posts' # posts /\ Exists(items, item_id)
          /\ UpdateShoppingListItemView_post(item_id, EmptyDict) =>
             /\ call'.op = "update"
             /\ call'.exc = ""
             /\ call'.ret = items[IndexOf(items, item_id)]
             /\ items' = items
             /\ response'.status = HTTP_OK
             /\ response'.item = items[IndexOf(items, item_id)]
             /\ fired' = 1
             /\ seen' = items]_vars

\* the answer to an HTTP update is 200 with an item that no other body of
\* Bodies leaves behind: named "" and not complete
C20_Witness ==
    /\ response.kind = "http"
    /\ response.status = HTTP_OK
    /\ call.op = "update"
    /\ fired = 1
    /\ "name" \in DOMAIN response.item
    /\ response.item["name"] = PyStr("")
    /\ response.item["complete"] = PyBool(FALSE)
    /\ \E i \in 1..Len(items) : items[i] = response.item

====
